---------------------------- MODULE Spec2Model ----------------------------
(***************************************************************************)
(* Web-push notification builder of a2 (src/request/notification/web.rs)   *)
(* and the NotificationBuilder capability (src/request/notification.rs).   *)
(*                                                                         *)
(* A builder is created by WebNotificationBuilder::new, mutated by         *)
(* set_sound through `&mut self`, and moved into build, which returns a    *)
(* Payload.  Several builders live side by side; each owns its fields.     *)
(*                                                                         *)
(* Option<T> is modelled as a sequence of length at most one:              *)
(*   None == << >>,  Some(x) == << x >>.                                   *)
(***************************************************************************)
EXTENDS Naturals, Sequences, FiniteSets, TLC

\* ------------------------------------------------------------------ bounds
\* Longest url_args list handed to new.
MaxArgs == 2
\* Largest number of set_sound calls made on one builder.
MaxSetSound == 2

\* ------------------------------------------------------------------ inputs
\* The builder instances the caller owns.
Builders == {"b1", "b2"}

None == << >>
Some(x) == << x >>

\* The alert handed to new, as in test_webpush_notification: its three
\* fields are pairwise different, so a field taken for another shows.
Alerts == { [title |-> "Hello", body |-> "world", action |-> "View"] }

\* Strings a caller may pass as one url argument.
ArgStrings == {"arg1", "arg2"}

RECURSIVE SeqsUpTo(_, _)
SeqsUpTo(S, n) ==
    IF n = 0 THEN { << >> }
    ELSE LET shorter == SeqsUpTo(S, n - 1)
         IN  shorter \cup { Append(s, x) : s \in { t \in shorter : Len(t) = n - 1 }, x \in S }

\* The url_args slices handed to new, the empty one included.
UrlArgLists == SeqsUpTo(ArgStrings, MaxArgs)

\* Sound names handed to set_sound, the empty name included.
Sounds == {"meow", ""}

\* Device tokens handed to build.
DeviceTokens == {"device-token", "token"}

\* NotificationOptions values handed to build: Default::default() and one
\* with delivery metadata set.
DefaultOptions == [apns_priority |-> None, apns_topic |-> None]
Options ==
    { DefaultOptions,
      [apns_priority |-> Some("High"), apns_topic |-> Some("web.com.example")] }

\* ------------------------------------------------------------------- state
VARIABLES
    pc,        \* per builder: "unborn", "accumulating" or "built"
    builder,   \* per builder: Some(its fields) while the value is owned, None otherwise
    payloads,  \* per builder: the Payloads build returned for it, in order
    created,   \* history: Some([alert, url_args]) as given to new
    calls,     \* history: the sounds given to set_sound, in call order
    builds     \* history: the [device_token, options] given to build, in call order

vars == << pc, builder, payloads, created, calls, builds >>

\* ----------------------------------------------------------- the data types

\* APSAlert::WebPush(alert)
WebPush(alert) == [tag |-> "WebPush", val |-> alert]
\* APSSound::Sound(name)
Sound(name) == [tag |-> "Sound", val |-> name]

\* BTreeMap::new()
EmptyMap == [k \in {} |-> None]

Opt(S) == { None } \cup { Some(x) : x \in S }

\* struct WebNotificationBuilder { alert, sound, url_args }
BuilderValues ==
    [alert : Alerts, sound : Opt(Sounds), url_args : UrlArgLists]

TypeOK ==
    /\ pc \in [Builders -> {"unborn", "accumulating", "built"}]
    /\ builder \in [Builders -> Opt(BuilderValues)]
    /\ \A b \in Builders : Len(payloads[b]) <= 1
    /\ created \in [Builders -> Opt([alert : Alerts, url_args : UrlArgLists])]
    /\ \A b \in Builders :
          /\ Len(calls[b]) <= MaxSetSound
          /\ \A i \in 1..Len(calls[b]) : calls[b][i] \in Sounds
    /\ \A b \in Builders : \A i \in 1..Len(builds[b]) :
          builds[b][i] \in [device_token : DeviceTokens, options : Options]

\* ------------------------------------------------- WebNotificationBuilder
\* url_args.as_ref().into_iter().cloned().map(|arg| arg.into()).collect():
\* element by element, in order.
CollectArgs(url_args) == [i \in 1..Len(url_args) |-> url_args[i]]

NewWithEmptySound(alert, url_args) ==
    [alert |-> alert, sound |-> Some(""), url_args |-> CollectArgs(url_args)]

new(alert, url_args) ==
    [alert |-> alert, sound |-> None, url_args |-> CollectArgs(url_args)]

FirstWriteSetSound(self, sound) ==
    IF self.sound = None THEN [self EXCEPT !.sound = Some(sound)] ELSE self

ResettingSetSound(self, sound) ==
    [self EXCEPT !.sound = Some(sound), !.url_args = << >>]

set_sound(self, sound) == [self EXCEPT !.sound = Some(sound)]

\* ------------------------------------- NotificationBuilder for the builder
UrlArgsDroppedWhenEmpty(self) ==
    [ alert             |-> Some(WebPush(self.alert)),
      badge             |-> None,
      sound             |-> IF self.sound = None THEN None ELSE Some(Sound(self.sound[1])),
      content_available |-> None,
      category          |-> None,
      mutable_content   |-> None,
      url_args          |-> IF self.url_args = << >> THEN None ELSE Some(self.url_args) ]

BadgeZero(self) ==
    [ alert             |-> Some(WebPush(self.alert)),
      badge             |-> Some(0),
      sound             |-> IF self.sound = None THEN None ELSE Some(Sound(self.sound[1])),
      content_available |-> None,
      category          |-> None,
      mutable_content   |-> None,
      url_args          |-> Some(self.url_args) ]

\* The APS literal of build.  self.sound.map(APSSound::Sound) maps None to
\* None and Some(s) to Some(Sound(s)).
APSOf(self) ==
    [ alert             |-> Some(WebPush(self.alert)),
      badge             |-> None,
      sound             |-> IF self.sound = None THEN None ELSE Some(Sound(self.sound[1])),
      content_available |-> None,
      category          |-> None,
      mutable_content   |-> None,
      url_args          |-> Some(self.url_args) ]

TokenInData(self, device_token, options) ==
    [ aps          |-> APSOf(self),
      device_token |-> device_token,
      options      |-> options,
      data         |-> ("device-token" :> device_token) ]

SoundInData(self, device_token, options) ==
    [ aps          |-> APSOf(self),
      device_token |-> device_token,
      options      |-> options,
      data         |-> IF self.sound = None THEN EmptyMap ELSE ("sound" :> self.sound[1]) ]

DefaultOptionsBuild(self, device_token, options) ==
    [ aps          |-> APSOf(self),
      device_token |-> device_token,
      options      |-> DefaultOptions,
      data         |-> EmptyMap ]

\* The Payload literal of build.
build(self, device_token, options) ==
    [ aps          |-> APSOf(self),
      device_token |-> device_token,
      options      |-> options,
      data         |-> EmptyMap ]

\* ------------------------------------------------------------ serialization
\* Payload::to_json_string as a JSON object: a function from keys to values.
\* A None field is skipped, keys are kebab-case, device_token and options are
\* skipped, data is flattened beside "aps".
AlertJson(a) == [title |-> a.val.title, body |-> a.val.body, action |-> a.val.action]
SoundJson(s) == s.val

\* One key of an object: absent for None, the rendered value for Some.
Field(key, rendered) ==
    IF rendered = None THEN EmptyMap ELSE key :> rendered[1]

ApsJson(aps) ==
    Field("alert", IF aps.alert = None THEN None ELSE Some(AlertJson(aps.alert[1])))
    @@ Field("badge", aps.badge)
    @@ Field("sound", IF aps.sound = None THEN None ELSE Some(SoundJson(aps.sound[1])))
    @@ Field("content-available", aps.content_available)
    @@ Field("category", aps.category)
    @@ Field("mutable-content", aps.mutable_content)
    @@ Field("url-args", aps.url_args)

PayloadJson(p) == ("aps" :> ApsJson(p.aps)) @@ p.data

\* ----------------------------------------------------------------- actions
Init ==
    /\ pc       = [b \in Builders |-> "unborn"]
    /\ builder  = [b \in Builders |-> None]
    /\ payloads = [b \in Builders |-> << >>]
    /\ created  = [b \in Builders |-> None]
    /\ calls    = [b \in Builders |-> << >>]
    /\ builds   = [b \in Builders |-> << >>]

\* let mut builder = WebNotificationBuilder::new(alert, url_args);
New(b, alert, url_args) ==
    /\ pc[b] = "unborn"
    /\ builder' = [builder EXCEPT ![b] = Some(new(alert, url_args))]
    /\ pc'      = [pc EXCEPT ![b] = "accumulating"]
    /\ created' = [created EXCEPT ![b] = Some([alert |-> alert, url_args |-> url_args])]
    /\ UNCHANGED << payloads, calls, builds >>

\* builder.set_sound(sound);  needs the builder value, through &mut self.
SetSound(b, sound) ==
    /\ builder[b] # None
    /\ Len(calls[b]) < MaxSetSound
    /\ builder' = [builder EXCEPT ![b] = Some(set_sound(builder[b][1], sound))]
    /\ calls'   = [calls EXCEPT ![b] = Append(calls[b], sound)]
    /\ UNCHANGED << pc, payloads, created, builds >>

BuildRejectingNoArgs(b, device_token, options) ==
    /\ builder[b] # None
    /\ builder[b][1].url_args # << >>
    /\ payloads' = [payloads EXCEPT
                      ![b] = Append(payloads[b], build(builder[b][1], device_token, options))]
    /\ builder'  = [builder EXCEPT ![b] = None]
    /\ pc'       = [pc EXCEPT ![b] = "built"]
    /\ builds'   = [builds EXCEPT
                      ![b] = Append(builds[b], [device_token |-> device_token, options |-> options])]
    /\ UNCHANGED << created, calls >>

BuildByReference(b, device_token, options) ==
    /\ builder[b] # None
    /\ payloads' = [payloads EXCEPT
                      ![b] = Append(payloads[b], build(builder[b][1], device_token, options))]
    /\ builds'   = [builds EXCEPT
                      ![b] = Append(builds[b], [device_token |-> device_token, options |-> options])]
    /\ UNCHANGED << pc, builder, created, calls >>

\* let payload = builder.build(device_token, options);  `self` is taken by
\* value: the builder is moved into the call and the caller owns it no more.
Build(b, device_token, options) ==
    /\ builder[b] # None
    /\ payloads' = [payloads EXCEPT
                      ![b] = Append(payloads[b], build(builder[b][1], device_token, options))]
    /\ builder'  = [builder EXCEPT ![b] = None]
    /\ pc'       = [pc EXCEPT ![b] = "built"]
    /\ builds'   = [builds EXCEPT
                      ![b] = Append(builds[b], [device_token |-> device_token, options |-> options])]
    /\ UNCHANGED << created, calls >>

Next ==
    \/ \E b \in Builders, alert \in Alerts, url_args \in UrlArgLists : New(b, alert, url_args)
    \/ \E b \in Builders, sound \in Sounds : SetSound(b, sound)
    \/ \E b \in Builders, device_token \in DeviceTokens, options \in Options :
          Build(b, device_token, options)

Spec == Init /\ [][Next]_vars

\* ------------------------------------------------------ reading the history
Last(s) == s[Len(s)]

\* The sound the builder was left with: that of the last set_sound call.
FinalSound(b) == IF calls[b] = << >> THEN None ELSE Some(Last(calls[b]))

\* Builders built from the same constructor arguments and the same final sound.
SameContent(b1, b2) ==
    /\ created[b1] = created[b2]
    /\ FinalSound(b1) = FinalSound(b2)

HasPayload(b) == payloads[b] # << >>

\* ------------------------------------------------------------------ claims

\* C1: whatever set_sound calls came before build, the Payload's aps.url_args
\* is Some, and holds the arguments given to new, in the same order and of
\* the same length; for an empty argument list it is Some(<< >>), not None.
C1_UrlArgsAlwaysPresent ==
    \A b \in Builders : \A i \in 1..Len(payloads[b]) :
        LET p     == payloads[b][i]
            given == created[b][1].url_args
        IN  /\ p.aps.url_args # None
            /\ Len(p.aps.url_args) = 1
            /\ Len(p.aps.url_args[1]) = Len(given)
            /\ \A k \in 1..Len(given) : p.aps.url_args[1][k] = given[k]

\* One builder built with no argument after a set_sound call, another built
\* with two different arguments.
C1_Witness ==
    /\ HasPayload("b1") /\ created["b1"][1].url_args = << >> /\ calls["b1"] # << >>
    /\ payloads["b1"][1].aps.url_args = Some(<< >>)
    /\ HasPayload("b2") /\ created["b2"][1].url_args = << "arg2", "arg1" >>

\* C2: every Payload built has aps.badge, aps.content_available, aps.category
\* and aps.mutable_content None, and none of the keys badge,
\* content-available, category, mutable-content is in the serialized aps.
C2_UnusedFieldsAbsent ==
    \A b \in Builders : \A i \in 1..Len(payloads[b]) :
        LET p == payloads[b][i]
        IN  /\ p.aps.badge = None
            /\ p.aps.content_available = None
            /\ p.aps.category = None
            /\ p.aps.mutable_content = None
            /\ DOMAIN ApsJson(p.aps)
                 \cap {"badge", "content-available", "category", "mutable-content"} = {}

\* Both builders built, one of them after two set_sound calls, with
\* different device tokens and options.
C2_Witness ==
    /\ HasPayload("b1") /\ Len(calls["b1"]) = 2
    /\ HasPayload("b2") /\ calls["b2"] = << >>
    /\ builds["b1"][1].device_token # builds["b2"][1].device_token
    /\ builds["b1"][1].options # builds["b2"][1].options

\* C3: after set_sound(s1), ..., set_sound(sn) the builder holds sn, the
\* Payload's aps.sound is the simple sound sn, and the Payload is the one a
\* builder given only set_sound(sn) yields: nothing of s1..s(n-1) is kept.
C3_LastWriteWins ==
    /\ \A b \in Builders :
          (builder[b] # None /\ calls[b] # << >>)
             => builder[b][1].sound = Some(Last(calls[b]))
    /\ \A b \in Builders : \A i \in 1..Len(payloads[b]) :
          calls[b] # << >>
             => payloads[b][i].aps.sound = Some(Sound(Last(calls[b])))
    /\ \A b1, b2 \in Builders :
          (/\ HasPayload(b1) /\ HasPayload(b2)
           /\ calls[b1] # << >> /\ calls[b2] # << >>
           /\ SameContent(b1, b2)
           /\ builds[b1] = builds[b2])
             => payloads[b1] = payloads[b2]

\* b1 built after set_sound("meow"), set_sound(""); b2 built after
\* set_sound("") alone, from the same arguments.
C3_Witness ==
    /\ HasPayload("b1") /\ calls["b1"] = << "meow", "" >>
    /\ HasPayload("b2") /\ calls["b2"] = << "" >>
    /\ created["b1"] = created["b2"] /\ builds["b1"] = builds["b2"]
    /\ payloads["b1"][1].aps.sound = Some(Sound(""))

\* C4: aps.sound is Some exactly when set_sound was called before build;
\* the keys of the serialized aps are {alert, url-args} with no call and
\* {alert, sound, url-args} with at least one, whatever the sound name.
C4_UnsetFieldsAbsent ==
    \A b \in Builders : \A i \in 1..Len(payloads[b]) :
        LET p == payloads[b][i]
        IN  /\ (p.aps.sound # None) <=> (calls[b] # << >>)
            /\ calls[b] = << >>
                 => DOMAIN ApsJson(p.aps) = {"alert", "url-args"}
            /\ calls[b] # << >>
                 => DOMAIN ApsJson(p.aps) = {"alert", "sound", "url-args"}

\* One builder built with no set_sound call, the other after
\* set_sound(""): the empty name is still a set sound.
C4_Witness ==
    /\ HasPayload("b1") /\ calls["b1"] = << >>
    /\ payloads["b1"][1].aps.sound = None
    /\ HasPayload("b2") /\ calls["b2"] = << "" >>
    /\ payloads["b2"][1].aps.sound # None

\* A step that is a set_sound call on b.
IsSetSound(b) == calls'[b] # calls[b]

\* C5: a set_sound(s) call leaves the builder's alert and url_args as they
\* were; a Payload built after set_sound is the Payload built without it
\* from the same arguments, but for aps.sound, and its aps.alert is the
\* WebPush alert with the title, body and action given to new.
C5_SetSoundFrame ==
    /\ [][ \A b \in Builders :
              IsSetSound(b)
                 => /\ builder'[b][1].alert = builder[b][1].alert
                    /\ builder'[b][1].url_args = builder[b][1].url_args
                    /\ builder'[b][1].sound = Some(Last(calls'[b]))
                    /\ \A c \in Builders \ {b} : builder'[c] = builder[c] ]_vars
    /\ [] ( \A b1, b2 \in Builders :
              (/\ HasPayload(b1) /\ HasPayload(b2)
               /\ calls[b1] = << >> /\ calls[b2] # << >>
               /\ created[b1] = created[b2]
               /\ builds[b1] = builds[b2])
                 => /\ payloads[b2][1] =
                         [payloads[b1][1] EXCEPT
                             !.aps.sound = Some(Sound(Last(calls[b2])))]
                    /\ payloads[b2][1].aps.alert[1].tag = "WebPush"
                    /\ payloads[b2][1].aps.alert[1].val.title = created[b2][1].alert.title
                    /\ payloads[b2][1].aps.alert[1].val.body = created[b2][1].alert.body
                    /\ payloads[b2][1].aps.alert[1].val.action = created[b2][1].alert.action )

\* b1 built without set_sound, b2 built after set_sound("meow"), from the
\* same non-empty arguments and with the same device token and options.
C5_Witness ==
    /\ HasPayload("b1") /\ calls["b1"] = << >>
    /\ HasPayload("b2") /\ calls["b2"] = << "meow" >>
    /\ created["b1"] = created["b2"] /\ created["b1"][1].url_args = << "arg1" >>
    /\ builds["b1"] = builds["b2"]

\* C6: while a builder is accumulating its value is owned, and build is
\* enabled for every device token and every options value; once built, the
\* builder has returned a Payload.  No other state exists.
C6_BuildInfallible ==
    \A b \in Builders :
        /\ pc[b] \in {"unborn", "accumulating", "built"}
        /\ pc[b] = "accumulating"
             => /\ builder[b] # None
                /\ \A t \in DeviceTokens, o \in Options : ENABLED Build(b, t, o)
        /\ pc[b] = "built" => Len(payloads[b]) >= 1

\* A builder with no url argument and the largest number of set_sound calls
\* is still accumulating, while the other one is built.
C6_Witness ==
    /\ pc["b1"] = "accumulating" /\ created["b1"][1].url_args = << >>
    /\ Len(calls["b1"]) = MaxSetSound
    /\ pc["b2"] = "built"

\* C7: a builder yields at most one Payload; once built its value is gone,
\* neither set_sound nor build is enabled on it, and it stays built with
\* its one Payload.
C7_SingleUse ==
    /\ [] ( \A b \in Builders :
              /\ Len(payloads[b]) <= 1
              /\ HasPayload(b) <=> pc[b] = "built"
              /\ pc[b] = "built"
                   => /\ builder[b] = None
                      /\ \A s \in Sounds : ~ ENABLED SetSound(b, s)
                      /\ \A t \in DeviceTokens, o \in Options : ~ ENABLED Build(b, t, o) )
    /\ [][ \A b \in Builders :
              pc[b] = "built"
                 => /\ pc'[b] = "built"
                    /\ payloads'[b] = payloads[b]
                    /\ calls'[b] = calls[b] ]_vars

\* b1 is built before it reached the bound on set_sound calls, while b2 is
\* still accumulating.
C7_Witness ==
    /\ pc["b1"] = "built" /\ Len(calls["b1"]) < MaxSetSound /\ Len(payloads["b1"]) = 1
    /\ pc["b2"] = "accumulating"

\* C8: the data map of every Payload built is empty.
C8_DataEmpty ==
    \A b \in Builders : \A i \in 1..Len(payloads[b]) :
        /\ DOMAIN payloads[b][i].data = {}
        /\ payloads[b][i].data = EmptyMap

\* A Payload built after a set_sound call, from a non-empty argument list
\* and with options that are not the default ones.
C8_Witness ==
    /\ HasPayload("b1") /\ calls["b1"] # << >>
    /\ created["b1"][1].url_args # << >>
    /\ builds["b1"][1].options # DefaultOptions
    /\ payloads["b1"][1].data = EmptyMap

\* The aps object the history of b calls for.
ExpectedApsJson(b) ==
    LET a    == created[b][1].alert
        base == ("alert" :> [title |-> a.title, body |-> a.body, action |-> a.action])
                @@ ("url-args" :> created[b][1].url_args)
    IN  IF calls[b] = << >> THEN base ELSE base @@ ("sound" :> Last(calls[b]))

\* C9: the serialized body of every Payload built has the one top-level key
\* aps, whose value holds the alert, the url arguments and the last sound
\* set and nothing of the device token or the options; the builder of
\* test_webpush_notification yields
\* {"aps":{"alert":{title,body,action},"url-args":["arg1"]}}.
C9_BodyIsApsOnly ==
    \A b \in Builders : \A i \in 1..Len(payloads[b]) :
        LET json == PayloadJson(payloads[b][i])
        IN  /\ DOMAIN json = {"aps"}
            /\ DOMAIN json["aps"] = DOMAIN ExpectedApsJson(b)
            /\ json["aps"] = ExpectedApsJson(b)
            /\ ( /\ created[b][1].url_args = << "arg1" >>
                 /\ calls[b] = << >> )
                 => json = [aps |-> ("alert" :> [title |-> "Hello", body |-> "world",
                                                  action |-> "View"])
                                    @@ ("url-args" :> << "arg1" >>)]

\* The builder of test_webpush_notification, built with "device-token" and
\* the default options.
C9_Witness ==
    /\ HasPayload("b1") /\ calls["b1"] = << >>
    /\ created["b1"][1].url_args = << "arg1" >>
    /\ builds["b1"][1] = [device_token |-> "device-token", options |-> DefaultOptions]

\* C10: the Payload's device_token and options are those given to build,
\* and builders of the same alert, url_args and final sound yield the same
\* aps whatever device token and options they are built with.
C10_PassThrough ==
    /\ \A b \in Builders :
          /\ Len(payloads[b]) = Len(builds[b])
          /\ \A i \in 1..Len(payloads[b]) :
                /\ payloads[b][i].device_token = builds[b][i].device_token
                /\ payloads[b][i].options = builds[b][i].options
    /\ \A b1, b2 \in Builders :
          (HasPayload(b1) /\ HasPayload(b2) /\ SameContent(b1, b2))
             => payloads[b1][1].aps = payloads[b2][1].aps

\* Two builders of the same content, built with different device tokens
\* and different options, neither the default ones for b1.
C10_Witness ==
    /\ HasPayload("b1") /\ HasPayload("b2") /\ SameContent("b1", "b2")
    /\ calls["b1"] # calls["b2"]
    /\ builds["b1"][1].device_token # builds["b2"][1].device_token
    /\ builds["b1"][1].options # DefaultOptions
    /\ builds["b2"][1].options = DefaultOptions

=============================================================================
